---- MODULE Spec2Model ----
(***************************************************************************)
(* Verification model of the vRO-Workflows tooling:                        *)
(*   - scripts/validate-workflow.js : naming / description validator       *)
(*   - the GitHub Actions pipeline "Generate Documentation on PR Merge to  *)
(*     Develop" (find-workflows -> trigger-vro matrix with a bash retry    *)
(*     loop around curl)                                                   *)
(*   - the lint script for embedded scripts, scripts/docs-workflow.js, and *)
(*     the rollback decisions of the workflow Create AVI Load Balancer.    *)
(* Strings are modelled as sequences of character classes, because the     *)
(* regular expressions and String.prototype.trim only look at the class of *)
(* each character.                                                         *)
(***************************************************************************)
EXTENDS Integers, Sequences, FiniteSets, TLC

(* ------------------------------ bounds -------------------------------- *)
MaxNameLen == 2
MaxTextLen == 1
MaxFiles == 2
MaxVars == 2
MaxItems == 2
MaxTitleLen == 3
MaxProps == 2

(* ------------------------ strings as class sequences ------------------ *)
\* classes of characters that CAMEL_CASE_RE / UPPER_CASE_RE tell apart
NameChars == {"lower", "upper", "digit", "underscore", "other"}

\* classes of characters that String.prototype.trim tells apart
TextChars == {"ws", "ch"}

SeqsUpTo(S, n) == UNION {[1..k -> S] : k \in 0..n}

Names == SeqsUpTo(NameChars, MaxNameLen)

Texts == SeqsUpTo(TextChars, MaxTextLen)

(* ------------------------------ regexes ------------------------------- *)
\* /^[a-z]+(?:[A-Z][a-z0-9]*)*$/ as the automaton the regex engine runs:
\* q0 = nothing read, q1 = inside [a-z]+, q2 = inside a (?:[A-Z][a-z0-9]*) group
CamelStep(q, c) ==
  CASE q = "q0" /\ c = "lower" -> "q1"
    [] q = "q1" /\ c = "lower" -> "q1"
    [] q = "q1" /\ c = "upper" -> "q2"
    [] q = "q2" /\ c \in {"lower", "digit", "upper"} -> "q2"
    [] OTHER -> "dead"

\* /^[A-Z0-9_]+$/
UpperStep(q, c) ==
  CASE q \in {"q0", "q1"} /\ c \in {"upper", "digit", "underscore"} -> "q1"
    [] OTHER -> "dead"

RECURSIVE RunCamel(_, _)
RunCamel(q, s) ==
  IF s = <<>> THEN q ELSE RunCamel(CamelStep(q, Head(s)), Tail(s))

RECURSIVE RunUpper(_, _)
RunUpper(q, s) ==
  IF s = <<>> THEN q ELSE RunUpper(UpperStep(q, Head(s)), Tail(s))

CAMEL_CASE_RE(name) == RunCamel("q0", name) \in {"q1", "q2"}

UPPER_CASE_RE(name) == RunUpper("q0", name) = "q1"

(* ------------------------- parsed XML values -------------------------- *)
\* What xml2js (explicitCharkey, mergeAttrs) can hand over for a <description>
\* child: undefined, a string, or an object with or without the "_" text key.
Undefined == [t |-> "undefined", hasKey |-> FALSE, s |-> <<>>]

Descriptions ==
  {Undefined}
    \cup {[t |-> "string", hasKey |-> FALSE, s |-> x] : x \in Texts}
    \cup {[t |-> "object", hasKey |-> TRUE, s |-> x] : x \in Texts}
    \cup {[t |-> "object", hasKey |-> FALSE, s |-> <<>>]}

\* value of an XML attribute after mergeAttrs: missing, "true" or "false"
AttrValues == {"undefined", "true", "false"}

\* one <param> / <attrib>; truthy = FALSE is the empty string xml2js returns
\* for an element without attributes and children
EmptyNode ==
  [truthy |-> FALSE, named |-> FALSE, name |-> <<>>, ro |-> "undefined",
   readOnly |-> "undefined", type |-> "undefined", description |-> Undefined]

Entries ==
  {EmptyNode}
    \cup [truthy : {TRUE}, named : {TRUE}, name : Names, ro : AttrValues,
          readOnly : AttrValues, type : {"undefined"}, description : Descriptions]
    \cup [truthy : {TRUE}, named : {FALSE}, name : {<<>>}, ro : AttrValues,
          readOnly : AttrValues, type : {"undefined"}, description : Descriptions]

ItemTypes == {"start", "end", "link", "task", "undefined"}

Items ==
  {EmptyNode}
    \cup [truthy : {TRUE}, named : {FALSE}, name : {<<>>}, ro : {"undefined"},
          readOnly : {"undefined"}, type : ItemTypes, description : Descriptions]

\* placeholder while no entry / item has been read in the current file
NoNode == [EmptyNode EXCEPT !.type = "none"]

\* The first file, when it holds a single variable and nothing else, is
\* explored with every entry of Entries; any other file with one
\* representative entry per outcome (no report, naming only, description
\* only, both, skipped, constant).  Likewise a file with a single
\* workflow-item is explored with every item of Items.
Described == [t |-> "object", hasKey |-> TRUE, s |-> <<"ch">>]

SampleEntry(nm, r, d) ==
  [truthy |-> TRUE, named |-> TRUE, name |-> nm, ro |-> r,
   readOnly |-> "undefined", type |-> "undefined", description |-> d]

SampleEntries ==
  { SampleEntry(<<"lower", "upper">>, "undefined", Described),
    SampleEntry(<<"upper">>, "false", Described),
    SampleEntry(<<"lower">>, "undefined", Undefined),
    SampleEntry(<<"digit">>, "undefined", Undefined),
    SampleEntry(<<"upper", "underscore">>, "true", Described),
    EmptyNode }

EntriesFor(f, nv, ni) ==
  IF f = 1 /\ nv = 1 /\ ni = 0 THEN Entries ELSE SampleEntries

SampleItem(ty, d) ==
  [truthy |-> TRUE, named |-> FALSE, name |-> <<>>, ro |-> "undefined",
   readOnly |-> "undefined", type |-> ty, description |-> d]

SampleItems ==
  { SampleItem("task", Described),
    SampleItem("task", Undefined),
    SampleItem("link", Undefined),
    SampleItem("start", Described),
    EmptyNode }

ItemsFor(ni) == IF ni = 1 THEN Items ELSE SampleItems

(* ------------------------- validator functions ------------------------ *)
isConstant(attr) ==
  attr.ro = "true" \/ attr.readOnly = "true"

validateName_swapped(name, constant) ==
  IF constant THEN CAMEL_CASE_RE(name) ELSE UPPER_CASE_RE(name)

validateName(name, constant) ==
  IF constant THEN UPPER_CASE_RE(name) ELSE CAMEL_CASE_RE(name)

\* String.prototype.trim
RECURSIVE TrimLeft(_)
TrimLeft(s) ==
  IF s # <<>> /\ Head(s) = "ws" THEN TrimLeft(Tail(s)) ELSE s

RECURSIVE TrimRight(_)
TrimRight(s) ==
  IF s # <<>> /\ s[Len(s)] = "ws" THEN TrimRight(SubSeq(s, 1, Len(s) - 1)) ELSE s

trim(s) == TrimRight(TrimLeft(s))

\* JavaScript truthiness of a description value
Truthy(d) ==
  CASE d.t = "undefined" -> FALSE
    [] d.t = "string" -> d.s # <<>>
    [] OTHER -> TRUE

nodeHasDescription(node) ==
  IF ~node.truthy \/ ~Truthy(node.description)
  THEN FALSE
  ELSE LET d == node.description
           \* text = node.description._ ?? node.description
           textIsString == d.t = "string" \/ d.hasKey
       IN textIsString /\ Len(trim(d.s)) > 0

\* !name : a missing name attribute and name="" are both skipped
HasName(entry) == entry.named /\ entry.name # <<>>

\* the violations reported for one entry of sections (lines 72-90)
EntryReports(entry) ==
  IF ~HasName(entry)
  THEN {}
  ELSE (IF ~validateName(entry.name, isConstant(entry)) THEN {"naming"} ELSE {})
         \cup (IF ~nodeHasDescription(entry) THEN {"description"} ELSE {})

ItemReports_noSkip(item) ==
  IF ~nodeHasDescription(item) THEN {"item"} ELSE {}

\* the violations reported for one workflow-item (lines 96-105)
ItemReports(item) ==
  IF item.type \in {"end", "start", "link"}
  THEN {}
  ELSE IF ~nodeHasDescription(item) THEN {"item"} ELSE {}

AddViolations_oncePerEntry(v, reports) == v + (IF reports = {} THEN 0 ELSE 1)

\* violations++ once per reported message
AddViolations(v, reports) == v + Cardinality(reports)

ExitDecision_offByOne(v) == IF v > 1 THEN 1 ELSE 0

\* lines 108-113: process.exit(1) or fall off the end of the script (code 0)
ExitDecision(v) == IF v > 0 THEN 1 ELSE 0

(* --------------------- pipeline: values and steps --------------------- *)
\* workflow ids find-workflows can discover in the repository
WorkflowIds == {"wfA", "wfB"}

\* for i in {1..3}
MaxAttempts == 3

\* what jq -r prints for a login answer: the token, or null when the field
\* is missing
RefreshTokens == {"rt", "null"}

BearerTokens == {"bt", "null"}

\* what one curl call of the retry loop yields: %{http_code} and curl's own
\* exit status.  000 is written when no HTTP answer arrived, and curl then
\* exits non-zero (7: could not connect); an answer cut short gives a code
\* with exit status 18.
CurlOutcomes ==
  {[code |-> 0, exit |-> 7], [code |-> 200, exit |-> 18]}
    \cup [code : {199, 200, 299, 300}, exit : {0}]

PullRequestEvents ==
  {e \in [action : {"opened", "closed"}, base : {"main", "develop"}, merged : BOOLEAN] :
     e.merged => e.action = "closed"}

NoEvent == [action |-> "none", base |-> "none", merged |-> FALSE]

\* on: pull_request: types: [closed], branches: [main]
PipelineTriggered(e) == e.action = "closed" /\ e.base = "main"

FindWorkflowsIf_always(e) == TRUE

\* if: github.event.pull_request.merged == true
FindWorkflowsIf(e) == e.merged = TRUE

\* needs: find-workflows, no if: the job runs only after a successful
\* find-workflows and is skipped when that job was skipped or failed
NeedsSatisfied(status) == status = "success"

IsSuccess_never(code) == FALSE

\* [ "$HTTP_CODE" -ge 200 ] && [ "$HTTP_CODE" -lt 300 ]
IsSuccess(code) == code >= 200 /\ code < 300

\* elif [ "$i" -eq 3 ]
LastAttempt(i) == i = MaxAttempts

BearerPayload_stale(j) == "null"

\* -d {"refreshToken": "${{ steps.refresh-token.outputs.refresh_token }}"}
BearerPayload(j) == j.refresh_token

\* -H "Authorization: Bearer ${{ steps.bearer-token.outputs.bearer_token }}"
TriggerAuthorization(j) == j.bearer_token

\* one HTTP request of a job: what it carried and what came back
Request(kind, sent, got, code) ==
  [req |-> kind, sent |-> sent, got |-> got, code |-> code]

NoJob ==
  [status |-> "none", pc |-> "none", refresh_token |-> "", bearer_token |-> "",
   i |-> 0, trigger |-> "pending", exit |-> -1, log |-> <<>>]

\* a step that ends with a non-zero status fails the job; the steps after it
\* are not run
FailJob(j, step, code) ==
  [j EXCEPT !.status = "failure", !.pc = "end", !.exit = code,
            !.trigger = IF step = "trigger" THEN "failure" ELSE j.trigger]

\* run steps are executed by bash -e: a command substitution whose command
\* exits non-zero ends the script with that status
Errexit(status) == status # 0

(* ------------------------------- state -------------------------------- *)
VARIABLES
  vpc,          \* position of validate-workflow.js
  violations,   \* let violations
  nFiles,       \* files.length
  fileIdx,      \* files consumed by the for..of loop
  nVars,        \* sections.length of the current file
  varIdx,       \* entries of sections consumed
  nItems,       \* items.length of the current file
  itemIdx,      \* workflow-items consumed
  entry,        \* the entry of sections checked last
  item,         \* the workflow-item checked last
  reported,     \* kinds of console.error messages of the last loop step
  before,       \* violations before the last loop step
  expected,     \* violations the scanned input calls for (history)
  exitCode,     \* exit code of the process, -1 while running
  successPrinted

vvars == <<vpc, violations, nFiles, fileIdx, nVars, varIdx, nItems, itemIdx,
           entry, item, reported, before, expected, exitCode, successPrinted>>

VARIABLES
  event,        \* the pull_request event: action, base branch, merged flag
  run,          \* the pipeline run: "none", "ignored" or "created"
  findStatus,   \* result of job find-workflows
  matrix,       \* workflow ids written to outputs.matrix
  triggerVro,   \* job trigger-vro: "pending", "skipped" or "started"
  job           \* one trigger-vro matrix job per workflow id

cvars == <<event, run, findStatus, matrix, triggerVro, job>>

\* state of the lint script
VARIABLES
  lpc,          \* position: "idle", "files", "scripts", "done", "crashed"
  nLintFiles,   \* number of files the glob returned
  lintFileIdx,  \* files loaded so far
  scripts,      \* extractScripts(wf) of the current file
  scriptIdx,    \* scripts of the current file linted so far
  hasError,     \* the script's flag
  lintExit,     \* exit code of the process, -1 while running
  anyError,     \* some lintText result had errorCount > 0 (history)
  extracted,    \* scripts extracted so far (history)
  linted,       \* scripts linted so far (history)
  firstError    \* value of linted when the first error was seen, 0 if none

lvars == <<lpc, nLintFiles, lintFileIdx, scripts, scriptIdx, hasError,
           lintExit, anyError, extracted, linted, firstError>>

IdleLint ==
  /\ lpc = "idle"
  /\ nLintFiles = 0
  /\ lintFileIdx = 0
  /\ scripts = <<>>
  /\ scriptIdx = 0
  /\ hasError = FALSE
  /\ lintExit = -1
  /\ anyError = FALSE
  /\ extracted = 0
  /\ linted = 0
  /\ firstError = 0

\* state of the documentation generator
VARIABLES
  dpc,          \* position: "idle", "files", "done", "crashed"
  nDocFiles,    \* number of files the glob returned
  docFileIdx,   \* documents written so far
  wf,           \* the workflow read last
  formProps,    \* the script's formProps
  doc,          \* the document written last
  earlierRows   \* form rows read for earlier workflows (history)

dvars == <<dpc, nDocFiles, docFileIdx, wf, formProps, doc, earlierRows>>

NoWorkflow == [kind |-> "none"]
NoDoc == [kind |-> "none"]

IdleDocs ==
  /\ dpc = "idle"
  /\ nDocFiles = 0
  /\ docFileIdx = 0
  /\ wf = NoWorkflow
  /\ formProps = <<>>
  /\ doc = NoDoc
  /\ earlierRows = {}

\* state of one run of the documented workflow Create AVI Load Balancer
VARIABLES
  rpc,                       \* the element the run is at
  useExistingHealthMonitor,  \* input
  existingHealthMonitor,     \* input
  useExistingPool,           \* input
  existingPool,              \* input
  healthMonitor,             \* workflow variable
  pool,                      \* workflow variable
  approved,                  \* results of Check Pool / Check Health Monitor
  deleted                    \* resources a DELETE request was sent for

rvars == <<rpc, useExistingHealthMonitor, existingHealthMonitor,
           useExistingPool, existingPool, healthMonitor, pool, approved,
           deleted>>

NoDecision == [healthMonitor |-> "none", pool |-> "none"]

IdleRollback ==
  /\ rpc = "idle"
  /\ useExistingHealthMonitor = "null"
  /\ existingHealthMonitor = ""
  /\ useExistingPool = "null"
  /\ existingPool = ""
  /\ healthMonitor = ""
  /\ pool = ""
  /\ approved = NoDecision
  /\ deleted = {}

\* what the actions of one script leave alone: the other scripts' state
exceptValidator == <<cvars, lvars, dvars, rvars>>
exceptCI == <<vvars, lvars, dvars, rvars>>
exceptLint == <<vvars, cvars, dvars, rvars>>
exceptDocs == <<vvars, cvars, lvars, rvars>>
exceptRollback == <<vvars, cvars, lvars, dvars>>

vars == <<vvars, cvars, lvars, dvars, rvars>>

(* -------------------- what the input calls for ------------------------ *)
OnlyUpperDigitsUnderscore(name) ==
  Len(name) > 0 /\ \A i \in 1..Len(name) : name[i] \in {"upper", "digit", "underscore"}

\* lowerCamelCase as the validator understands it: a lowercase first word,
\* then letters and digits, no digit before the first capital
LowerCamel(name) ==
  /\ Len(name) > 0
  /\ name[1] = "lower"
  /\ \A i \in 1..Len(name) : name[i] \in {"lower", "upper", "digit"}
  /\ \A i \in 1..Len(name) :
       name[i] = "digit" => \E j \in 1..(i - 1) : name[j] = "upper"

MarkedConstant(e) == "true" \in {e.ro, e.readOnly}

NameFailsRule(e) ==
  IF MarkedConstant(e) THEN ~OnlyUpperDigitsUnderscore(e.name) ELSE ~LowerCamel(e.name)

\* a description with visible text
HasText(d) ==
  /\ d.t = "string" \/ (d.t = "object" /\ d.hasKey)
  /\ \E i \in 1..Len(d.s) : d.s[i] = "ch"

Technical(it) == it.type \in {"start", "end", "link"}

ExpectedEntry(e) ==
  IF HasName(e)
  THEN (IF NameFailsRule(e) THEN 1 ELSE 0) + (IF ~HasText(e.description) THEN 1 ELSE 0)
  ELSE 0

ExpectedItem(it) ==
  IF ~Technical(it) /\ ~HasText(it.description) THEN 1 ELSE 0

(* ------------------------------ validator ----------------------------- *)
IdleCI ==
  /\ event = NoEvent
  /\ run = "none"
  /\ findStatus = "pending"
  /\ matrix = {}
  /\ triggerVro = "pending"
  /\ job = [w \in WorkflowIds |-> NoJob]

InitValidator ==
  /\ IdleCI
  /\ IdleLint
  /\ IdleDocs
  /\ IdleRollback
  /\ vpc = "files"
  /\ violations = 0
  /\ nFiles \in 0..MaxFiles
  /\ fileIdx = 0
  /\ nVars = 0
  /\ varIdx = 0
  /\ nItems = 0
  /\ itemIdx = 0
  /\ entry = NoNode
  /\ item = NoNode
  /\ reported = {}
  /\ before = 0
  /\ expected = 0
  /\ exitCode = -1
  /\ successPrinted = FALSE

\* where the script goes once the current loop body is finished
AfterEntry(v, nv, ni) ==
  IF v < nv THEN "vars" ELSE IF ni > 0 THEN "items" ELSE "files"

AfterItem(i, ni) == IF i < ni THEN "items" ELSE "files"

\* loadXml rejects (unreadable file, malformed XML): the top-level await
\* throws and node ends the process with code 1
LoadThrows ==
  /\ UNCHANGED exceptValidator
  /\ vpc = "files"
  /\ fileIdx < nFiles
  /\ fileIdx' = fileIdx + 1
  /\ vpc' = "crashed"
  /\ exitCode' = 1
  /\ UNCHANGED <<violations, nFiles, nVars, varIdx, nItems, itemIdx, entry,
                 item, reported, before, expected, successPrinted>>

\* lines 54-58: the root element is falsy
LoadNoRoot ==
  /\ UNCHANGED exceptValidator
  /\ vpc = "files"
  /\ fileIdx < nFiles
  /\ fileIdx' = fileIdx + 1
  /\ before' = violations
  /\ reported' = {"root"}
  /\ violations' = AddViolations(violations, {"root"})
  /\ expected' = expected + 1
  /\ nVars' = 0
  /\ varIdx' = 0
  /\ nItems' = 0
  /\ itemIdx' = 0
  /\ entry' = NoNode
  /\ item' = NoNode
  /\ vpc' = "files"
  /\ UNCHANGED <<nFiles, exitCode, successPrinted>>

\* lines 50-70 and 93-94: the file has a root; sections and items are built
LoadFile ==
  /\ UNCHANGED exceptValidator
  /\ vpc = "files"
  /\ fileIdx < nFiles
  /\ fileIdx' = fileIdx + 1
  /\ \E nv \in 0..MaxVars, ni \in 0..MaxItems :
       /\ nVars' = nv
       /\ nItems' = ni
       /\ vpc' = AfterEntry(0, nv, ni)
  /\ varIdx' = 0
  /\ itemIdx' = 0
  /\ entry' = NoNode
  /\ item' = NoNode
  /\ reported' = {}
  /\ before' = violations
  /\ UNCHANGED <<violations, nFiles, expected, exitCode, successPrinted>>

\* lines 72-90: one iteration of for (const entry of sections)
CheckEntry ==
  /\ UNCHANGED exceptValidator
  /\ vpc = "vars"
  /\ varIdx < nVars
  /\ \E e \in EntriesFor(fileIdx, nVars, nItems) :
       /\ entry' = e
       /\ reported' = EntryReports(e)
       /\ violations' = AddViolations(violations, EntryReports(e))
       /\ expected' = expected + ExpectedEntry(e)
  /\ before' = violations
  /\ varIdx' = varIdx + 1
  /\ vpc' = AfterEntry(varIdx + 1, nVars, nItems)
  /\ UNCHANGED <<nFiles, fileIdx, nVars, nItems, itemIdx, item, exitCode,
                 successPrinted>>

\* lines 96-105: one iteration of for (const item of items)
CheckItem ==
  /\ UNCHANGED exceptValidator
  /\ vpc = "items"
  /\ itemIdx < nItems
  /\ \E it \in ItemsFor(nItems) :
       /\ item' = it
       /\ reported' = ItemReports(it)
       /\ violations' = AddViolations(violations, ItemReports(it))
       /\ expected' = expected + ExpectedItem(it)
  /\ before' = violations
  /\ itemIdx' = itemIdx + 1
  /\ vpc' = AfterItem(itemIdx + 1, nItems)
  /\ entry' = NoNode
  /\ UNCHANGED <<nFiles, fileIdx, nVars, varIdx, nItems, exitCode,
                 successPrinted>>

\* lines 108-113
Finish ==
  /\ UNCHANGED exceptValidator
  /\ vpc = "files"
  /\ fileIdx = nFiles
  /\ vpc' = "done"
  /\ exitCode' = ExitDecision(violations)
  /\ successPrinted' = (ExitDecision(violations) = 0)
  /\ UNCHANGED <<violations, nFiles, fileIdx, nVars, varIdx, nItems, itemIdx,
                 entry, item, reported, before, expected>>

NextValidator ==
  \/ LoadThrows
  \/ LoadNoRoot
  \/ LoadFile
  \/ CheckEntry
  \/ CheckItem
  \/ Finish

SpecValidator == InitValidator /\ [][NextValidator]_vars

(* ----------------------- validator: properties ------------------------ *)
\* C1: once every matched file has been scanned, the process exits with code
\* 1 exactly when violations > 0; with violations = 0 the success message is
\* printed and the exit code is not 1.
C1_ExitOneIffViolations ==
  vpc = "done" =>
    /\ fileIdx = nFiles
    /\ exitCode = 1 <=> violations > 0
    /\ violations = 0 => (successPrinted /\ exitCode # 1)
    /\ violations > 0 => ~successPrinted

C1_Witness ==
  /\ vpc = "done"
  /\ nFiles > 0
  /\ violations > 0
  /\ exitCode = 1

C1_WitnessSuccess ==
  /\ vpc = "done"
  /\ nFiles > 0
  /\ violations = 0
  /\ successPrinted

\* C2: a violation never stops the scan: the step that finds one goes on with
\* the next entry, item or file; every entry and item of a file has been
\* checked when the file is left; the counter never decreases; at the end it
\* is the sum of the violations the scanned input calls for.
C2_ScanComplete ==
  /\ vpc \in {"files", "done"} => (varIdx = nVars /\ itemIdx = nItems)
  /\ vpc = "items" => varIdx = nVars
  /\ vpc = "done" => (fileIdx = nFiles /\ violations = expected)

C2_AllViolationsReported ==
  /\ []C2_ScanComplete
  /\ [][violations' >= violations]_vars
  /\ [][violations' > violations => vpc' \in {"vars", "items", "files"}]_vars

C2_Witness ==
  /\ vpc = "done"
  /\ nFiles = MaxFiles
  /\ violations >= 3
  /\ violations = expected

\* C3: a named entry gets a naming violation exactly when its name fails the
\* rule its constant flag selects (UPPER_CASE when marked read-only="true",
\* lowerCamelCase otherwise); a constant in camelCase and a non-constant in
\* UPPER_CASE are violations.
CamelShaped(name) ==
  /\ Len(name) > 0
  /\ name[1] = "lower"
  /\ \A i \in 1..Len(name) : name[i] \in {"lower", "upper", "digit"}

C4_AcceptedNameHasCapital ==
  (entry # NoNode /\ HasName(entry) /\ ~MarkedConstant(entry)
     /\ "naming" \notin reported) =>
    /\ entry.name[1] = "lower"
    /\ \E i \in 1..Len(entry.name) : entry.name[i] = "upper"

\* C5: every entry of sections without a description with text gets a
\* missing-description violation.
C5_MissingDescriptionReported ==
  (entry # NoNode /\ ~HasText(entry.description)) => "description" \in reported

\* C6: a workflow-item that is not start/end/link and has no description with
\* text adds exactly one violation; a start/end/link item adds none.
C6_ItemDescription ==
  item # NoNode =>
    /\ (~Technical(item) /\ ~HasText(item.description))
         => (reported = {"item"} /\ violations = before + 1)
    /\ Technical(item) => (reported = {} /\ violations = before)

C6_Witness ==
  /\ item # NoNode
  /\ item.type = "task"
  /\ item.description = Undefined
  /\ reported = {"item"}
  /\ violations = before + 1

C6_WitnessTechnical ==
  /\ item # NoNode
  /\ item.type = "link"
  /\ item.description = Undefined
  /\ reported = {}

(* ------------------------------ pipeline ------------------------------ *)
IdleValidator ==
  /\ vpc = "idle"
  /\ violations = 0
  /\ nFiles = 0
  /\ fileIdx = 0
  /\ nVars = 0
  /\ varIdx = 0
  /\ nItems = 0
  /\ itemIdx = 0
  /\ entry = NoNode
  /\ item = NoNode
  /\ reported = {}
  /\ before = 0
  /\ expected = 0
  /\ exitCode = -1
  /\ successPrinted = FALSE

InitCI ==
  /\ IdleValidator
  /\ IdleLint
  /\ IdleDocs
  /\ IdleRollback
  /\ event \in PullRequestEvents
  /\ run = "none"
  /\ findStatus = "pending"
  /\ matrix = {}
  /\ triggerVro = "pending"
  /\ job = [w \in WorkflowIds |-> NoJob]

\* on: pull_request (lines 57-61)
OnPullRequest ==
  /\ UNCHANGED exceptCI
  /\ run = "none"
  /\ run' = IF PipelineTriggered(event) THEN "created" ELSE "ignored"
  /\ UNCHANGED <<event, findStatus, matrix, triggerVro, job>>

\* find-workflows with a false if: condition (line 65)
FindWorkflowsSkipped ==
  /\ UNCHANGED exceptCI
  /\ run = "created"
  /\ findStatus = "pending"
  /\ ~FindWorkflowsIf(event)
  /\ findStatus' = "skipped"
  /\ UNCHANGED <<event, run, matrix, triggerVro, job>>

\* find-workflows, lines 69-106: the ids found go to outputs.matrix
FindWorkflowsRun ==
  /\ UNCHANGED exceptCI
  /\ run = "created"
  /\ findStatus = "pending"
  /\ FindWorkflowsIf(event)
  /\ \E found \in SUBSET WorkflowIds : matrix' = found
  /\ findStatus' = "success"
  /\ UNCHANGED <<event, run, triggerVro, job>>

\* find-workflows fails (checkout of the head ref, python3)
FindWorkflowsFail ==
  /\ UNCHANGED exceptCI
  /\ run = "created"
  /\ findStatus = "pending"
  /\ FindWorkflowsIf(event)
  /\ findStatus' = "failure"
  /\ UNCHANGED <<event, run, matrix, triggerVro, job>>

\* trigger-vro, needs: find-workflows not satisfied (line 109)
TriggerVroSkipped ==
  /\ UNCHANGED exceptCI
  /\ triggerVro = "pending"
  /\ findStatus # "pending"
  /\ ~NeedsSatisfied(findStatus)
  /\ triggerVro' = "skipped"
  /\ job' = [w \in WorkflowIds |-> [NoJob EXCEPT !.status = "skipped", !.pc = "end"]]
  /\ UNCHANGED <<event, run, findStatus, matrix>>

\* trigger-vro, lines 108-122: one job per matrix entry; checkout and the
\* logging step are done when the job reaches the first request
TriggerVroStart ==
  /\ UNCHANGED exceptCI
  /\ triggerVro = "pending"
  /\ NeedsSatisfied(findStatus)
  /\ triggerVro' = "started"
  /\ job' = [w \in WorkflowIds |->
               IF w \in matrix
               THEN [NoJob EXCEPT !.status = "running", !.pc = "refresh"]
               ELSE NoJob]
  /\ UNCHANGED <<event, run, findStatus, matrix>>

\* lines 124-132: Request Refresh Token
RefreshStep(w) ==
  /\ UNCHANGED exceptCI
  /\ job[w].status = "running"
  /\ job[w].pc = "refresh"
  /\ \/ \E t \in RefreshTokens :
          job' = [job EXCEPT ![w] =
                    [@ EXCEPT !.refresh_token = t, !.pc = "bearer",
                              !.log = Append(@, Request("refresh", "", t, -1))]]
     \* curl exits non-zero (7) or jq cannot parse the answer (2)
     \/ \E status \in {7, 2} :
          /\ Errexit(status)
          /\ job' = [job EXCEPT ![w] =
                       FailJob([@ EXCEPT !.log = Append(@, Request("refresh", "", "error", -1))],
                               "refresh", status)]
  /\ UNCHANGED <<event, run, findStatus, matrix, triggerVro>>

\* lines 134-142: Request Bearer Token
BearerStep(w) ==
  /\ UNCHANGED exceptCI
  /\ job[w].status = "running"
  /\ job[w].pc = "bearer"
  /\ \/ \E t \in BearerTokens :
          job' = [job EXCEPT ![w] =
                    [@ EXCEPT !.bearer_token = t, !.pc = "trigger", !.i = 1,
                              !.log = Append(@, Request("bearer", BearerPayload(job[w]), t, -1))]]
     \/ \E status \in {7, 2} :
          /\ Errexit(status)
          /\ job' = [job EXCEPT ![w] =
                       FailJob([@ EXCEPT !.log = Append(@, Request("bearer", BearerPayload(job[w]), "error", -1))],
                               "bearer", status)]
  /\ UNCHANGED <<event, run, findStatus, matrix, triggerVro>>

\* lines 146-192: one pass of the body of for i in {1..3}
TriggerAttempt(w) ==
  /\ UNCHANGED exceptCI
  /\ job[w].status = "running"
  /\ job[w].pc = "trigger"
  /\ \E o \in CurlOutcomes :
       LET sent == [job[w] EXCEPT
                      !.log = Append(@, Request("exec", TriggerAuthorization(job[w]), "", o.code))]
       IN job' = [job EXCEPT ![w] =
                    IF Errexit(o.exit)
                    THEN FailJob(sent, "trigger", o.exit)
                    ELSE IF IsSuccess(o.code)
                    THEN [sent EXCEPT !.status = "success", !.pc = "end",
                                      !.trigger = "success", !.exit = 0]
                    ELSE IF LastAttempt(job[w].i)
                    THEN FailJob(sent, "trigger", 1)
                    ELSE [sent EXCEPT !.pc = "sleep"]]
  /\ UNCHANGED <<event, run, findStatus, matrix, triggerVro>>

\* line 191: sleep 5, then the next value of i
Sleep(w) ==
  /\ UNCHANGED exceptCI
  /\ job[w].status = "running"
  /\ job[w].pc = "sleep"
  /\ job' = [job EXCEPT ![w] = [@ EXCEPT !.pc = "trigger", !.i = @ + 1]]
  /\ UNCHANGED <<event, run, findStatus, matrix, triggerVro>>

\* lines 111-112: strategy without fail-fast: false; a failed matrix job
\* cancels the matrix jobs still in progress
CancelJob(w) ==
  /\ UNCHANGED exceptCI
  /\ job[w].status = "running"
  /\ \E k \in WorkflowIds \ {w} : job[k].status = "failure"
  /\ job' = [job EXCEPT ![w] =
               [@ EXCEPT !.status = "cancelled", !.pc = "end",
                         !.trigger = IF @ = "pending" /\ job[w].pc \in {"trigger", "sleep"}
                                     THEN "cancelled" ELSE @]]
  /\ UNCHANGED <<event, run, findStatus, matrix, triggerVro>>

NextCI ==
  \/ OnPullRequest
  \/ FindWorkflowsSkipped
  \/ FindWorkflowsRun
  \/ FindWorkflowsFail
  \/ TriggerVroSkipped
  \/ TriggerVroStart
  \/ \E w \in WorkflowIds : RefreshStep(w)
  \/ \E w \in WorkflowIds : BearerStep(w)
  \/ \E w \in WorkflowIds : TriggerAttempt(w)
  \/ \E w \in WorkflowIds : Sleep(w)
  \/ \E w \in WorkflowIds : CancelJob(w)

SpecCI == InitCI /\ [][NextCI]_vars

\* the runner executes every step it has started: curl and sleep return
FairSpecCI == SpecCI /\ WF_vars(NextCI)

(* ------------------------ pipeline: properties ------------------------ *)
IsExec(r) == r.req = "exec"

\* the workflow-execution POSTs job w has made, in order
Execs(w) == SelectSeq(job[w].log, IsExec)

Is2xx(r) == r.code \in 200..299

\* C7: the trigger step fails, with exit status 1, exactly when three
\* attempts were made and each returned a code outside 200-299; an attempt
\* with a code in 200-299 makes the step succeed.
C7_FailsIffThreeFailures ==
  \A w \in WorkflowIds :
    job[w].trigger \in {"success", "failure"} =>
      /\ job[w].trigger = "failure" <=>
           (Len(Execs(w)) = MaxAttempts /\ \A k \in 1..MaxAttempts : ~Is2xx(Execs(w)[k]))
      /\ job[w].trigger = "failure" => job[w].exit = 1
      /\ (\E k \in 1..Len(Execs(w)) : Is2xx(Execs(w)[k])) => job[w].trigger = "success"

\* C8: a job makes at most three execution POSTs and none after a POST that
\* returned a 2xx code; a job inside the retry loop eventually leaves it.
C8_Bounded ==
  \A w \in WorkflowIds :
    /\ Len(Execs(w)) <= 3
    /\ \A k \in 1..Len(Execs(w)) : Is2xx(Execs(w)[k]) => k = Len(Execs(w))

C8_RetryLoopTerminates ==
  /\ []C8_Bounded
  /\ \A w \in WorkflowIds :
       (job[w].pc \in {"trigger", "sleep"}) ~> (job[w].pc = "end")

C8_Witness ==
  \E w \in WorkflowIds :
    /\ job[w].pc = "end"
    /\ Len(Execs(w)) = 2
    /\ Execs(w)[1].code = 300
    /\ Execs(w)[2].code = 299
    /\ job[w].trigger = "success"

C8_WitnessThree ==
  \E w \in WorkflowIds :
    /\ job[w].pc = "end"
    /\ Len(Execs(w)) = 3
    /\ job[w].trigger = "failure"

\* C9: in every job the refresh-token request is the first request, the
\* bearer-token request the second and carries the token the first returned,
\* and every execution POST comes after both and carries the token the
\* second returned.
C9_RequestOrder ==
  \A w \in WorkflowIds :
    LET L == job[w].log IN
    \A k \in 1..Len(L) :
      /\ L[k].req = "refresh" <=> k = 1
      /\ L[k].req = "bearer" <=> k = 2
      /\ L[k].req = "bearer" => L[k].sent = L[1].got
      /\ L[k].req = "exec" => (k >= 3 /\ L[k].sent = L[2].got)

C9_Witness ==
  \E w \in WorkflowIds :
    LET L == job[w].log IN
    /\ Len(L) = 4
    /\ L[1].got = "rt"
    /\ L[2].sent = "rt"
    /\ L[2].got = "bt"
    /\ L[3].req = "exec" /\ L[3].sent = "bt"
    /\ L[4].req = "exec" /\ L[4].sent = "bt"

\* C10: requests are only sent for a merged pull request; for a pull request
\* closed without merge find-workflows is skipped and no trigger-vro job
\* runs or sends a request.
C10_OnlyMergedTrigger ==
  /\ (\E w \in WorkflowIds : job[w].log # <<>>) => event.merged
  /\ (run = "created" /\ ~event.merged) =>
       /\ findStatus \in {"pending", "skipped"}
       /\ triggerVro \in {"pending", "skipped"}
       /\ \A w \in WorkflowIds :
            job[w].status \in {"none", "skipped"} /\ job[w].log = <<>>

C10_Witness ==
  /\ run = "created"
  /\ event.action = "closed"
  /\ ~event.merged
  /\ findStatus = "skipped"
  /\ triggerVro = "skipped"
  /\ \A w \in WorkflowIds : job[w].status = "skipped" /\ job[w].log = <<>>

(* ----------------------------- lint script ---------------------------- *)
\* a workflow-item as extractScripts sees it: its type and its script
\* element: absent, empty (parsed to ''), or an object whose _ is the code
LintItemTypes == {"task", "decision"}
ScriptNodes == {"absent", "empty", "code"}
LintItems == [type : LintItemTypes, script : ScriptNodes]

\* i.script?._ is truthy
HasScriptText(i) == i.script = "code"

IsLintable(i) == i.type = "task" /\ HasScriptText(i)

\* parse-vro.js extractScripts: the task items that carry script text
extractScripts(items) == SelectSeq(items, IsLintable)

\* results of eslint.lintText: the errorCount of each LintResult
ErrorCounts == {0, 1, 2}
LintResults == {<<>>} \cup {<<n>> : n \in ErrorCounts}

\* results.some((r) => r.errorCount > 0)
SomeError(results) == \E k \in 1..Len(results) : results[k] > 0

HasErrorUpdate_overwrite(h, results) == SomeError(results)

\* hasError ||= results.some(...)
HasErrorUpdate(h, results) == h \/ SomeError(results)

\* if (hasError) process.exit(1), else the script ends normally
LintExit(h) == IF h THEN 1 ELSE 0

InitLint ==
  /\ IdleValidator
  /\ IdleCI
  /\ IdleDocs
  /\ IdleRollback
  /\ lpc = "files"
  /\ nLintFiles \in 0..MaxFiles
  /\ lintFileIdx = 0
  /\ scripts = <<>>
  /\ scriptIdx = 0
  /\ hasError = FALSE
  /\ lintExit = -1
  /\ anyError = FALSE
  /\ extracted = 0
  /\ linted = 0
  /\ firstError = 0

\* loadXml rejects (unreadable file, malformed XML): the top-level await
\* throws and node ends the process with code 1
LintLoadThrows ==
  /\ UNCHANGED exceptLint
  /\ lpc = "files"
  /\ lintFileIdx < nLintFiles
  /\ lpc' = "crashed"
  /\ lintExit' = 1
  /\ UNCHANGED <<nLintFiles, lintFileIdx, scripts, scriptIdx, hasError,
                 anyError, extracted, linted, firstError>>

\* the root element is not workflow: workflowObj.workflow is undefined and
\* extractScripts throws a TypeError
LintExtractThrows ==
  /\ UNCHANGED exceptLint
  /\ lpc = "files"
  /\ lintFileIdx < nLintFiles
  /\ lpc' = "crashed"
  /\ lintExit' = 1
  /\ lintFileIdx' = lintFileIdx + 1
  /\ UNCHANGED <<nLintFiles, scripts, scriptIdx, hasError, anyError,
                 extracted, linted, firstError>>

\* const wf = await loadXml(file); const scripts = extractScripts(wf)
LintLoadFile ==
  /\ UNCHANGED exceptLint
  /\ lpc = "files"
  /\ lintFileIdx < nLintFiles
  /\ \E items \in SeqsUpTo(LintItems, MaxItems) :
       /\ scripts' = extractScripts(items)
       /\ extracted' = extracted + Len(extractScripts(items))
       /\ lpc' = IF Len(extractScripts(items)) > 0 THEN "scripts" ELSE "files"
  /\ lintFileIdx' = lintFileIdx + 1
  /\ scriptIdx' = 0
  /\ UNCHANGED <<nLintFiles, hasError, lintExit, anyError, linted, firstError>>

\* one turn of the inner loop: lintText, print, update the flag
LintScript ==
  /\ UNCHANGED exceptLint
  /\ lpc = "scripts"
  /\ \E results \in LintResults :
       /\ hasError' = HasErrorUpdate(hasError, results)
       /\ anyError' = (anyError \/ SomeError(results))
       /\ firstError' = IF ~anyError /\ SomeError(results)
                        THEN linted + 1 ELSE firstError
  /\ linted' = linted + 1
  /\ scriptIdx' = scriptIdx + 1
  /\ lpc' = IF scriptIdx + 1 < Len(scripts) THEN "scripts" ELSE "files"
  /\ UNCHANGED <<nLintFiles, lintFileIdx, scripts, lintExit, extracted>>

\* eslint.lintText or loadFormatter rejects (configuration cannot be loaded)
LintTextThrows ==
  /\ UNCHANGED exceptLint
  /\ lpc = "scripts"
  /\ lpc' = "crashed"
  /\ lintExit' = 1
  /\ UNCHANGED <<nLintFiles, lintFileIdx, scripts, scriptIdx, hasError,
                 anyError, extracted, linted, firstError>>

\* after the loop: if (hasError) process.exit(1) else success message
LintFinish ==
  /\ UNCHANGED exceptLint
  /\ lpc = "files"
  /\ lintFileIdx = nLintFiles
  /\ lpc' = "done"
  /\ lintExit' = LintExit(hasError)
  /\ UNCHANGED <<nLintFiles, lintFileIdx, scripts, scriptIdx, hasError,
                 anyError, extracted, linted, firstError>>

NextLint ==
  \/ LintLoadThrows
  \/ LintExtractThrows
  \/ LintLoadFile
  \/ LintScript
  \/ LintTextThrows
  \/ LintFinish

SpecLint == InitLint /\ [][NextLint]_vars

\* C15 as stated: the lint script exits with code 1 if and only if some
\* extracted script has an ESLint result with errorCount > 0.
C15_ExitOneIffEslintError ==
  lpc \in {"done", "crashed"} => (lintExit = 1 <=> anyError)

\* C15 amended: the lint script exits with code 1 if and only if some linted
\* script has a result with errorCount > 0 or an exception ends the run
\* (a file that cannot be loaded or parsed, a root other than workflow,
\* ESLint rejecting); the flag is never cleared once set, and when the run
\* reaches the end every extracted script has been linted.
C15_ExitOneIffErrorOrCrash ==
  /\ lpc \in {"done", "crashed"} =>
       (lintExit = 1 <=> (anyError \/ lpc = "crashed"))
  /\ lpc = "done" => lintExit = (IF anyError THEN 1 ELSE 0)
  /\ hasError = anyError
  /\ lpc = "done" => linted = extracted

\* an error was found, a later script was linted clean, and the run ended
C15_Witness ==
  /\ lpc = "done"
  /\ lintExit = 1
  /\ firstError > 0
  /\ linted > firstError
  /\ hasError

(* ----------------------- documentation generator ---------------------- *)
\* classes of characters that /\s+/g tells apart: a space, a tab (both
\* match \s), an underscore, any other character
TitleChars == {"sp", "tab", "us", "ch"}

IsSpace(c) == c \in {"sp", "tab"}

Titles == SeqsUpTo(TitleChars, MaxTitleLen)

Str(x) == [t |-> "string", hasKey |-> FALSE, s |-> x]

\* what a template literal prints for a value that is not a string
ObjectObject == <<"[object Object]">>
UndefinedText == <<"undefined">>

\* the string literal 'unknown' and path.basename(xmlFile)
Unknown == Str(<<"unknown">>)
Basename == Str(<<"workflow.xml">>)

\* `${value}`
Render(v) ==
  CASE v.t = "string" -> v.s
    [] v.t = "undefined" -> UndefinedText
    [] OTHER -> ObjectObject

text_passThrough(node) ==
  IF node.t = "object" /\ node.hasKey THEN Str(node.s) ELSE node

\* text = (node) => typeof node === 'string' ? node : node?._ ?? ''
text(node) ==
  IF node.t = "string" THEN node
  ELSE IF node.t = "object" /\ node.hasKey THEN Str(node.s)
  ELSE Str(<<>>)

\* a || b
Or(a, b) == IF Truthy(a) THEN a ELSE b

\* text(root['display-name']) || root['object-name'] || path.basename(xmlFile)
wfName(root) == Or(Or(text(root.dn), root.objectName), Basename)

\* text(el['display-name']) || el.name || 'unknown'
elName(el) == Or(Or(text(el.dn), el.name), Unknown)

\* the greedy \s+ : the rest of the string after the run of whitespace
RECURSIVE SkipSpace(_)
SkipSpace(s) ==
  IF s # <<>> /\ IsSpace(Head(s)) THEN SkipSpace(Tail(s)) ELSE s

RECURSIVE ReplaceSpace_each(_)
ReplaceSpace_each(s) ==
  IF s = <<>> THEN <<>>
  ELSE IF IsSpace(Head(s)) THEN <<"us">> \o ReplaceSpace_each(Tail(s))
  ELSE <<Head(s)>> \o ReplaceSpace_each(Tail(s))

\* wfName.replace(/\s+/g, '_')
RECURSIVE ReplaceSpace(_)
ReplaceSpace(s) ==
  IF s = <<>> THEN <<>>
  ELSE IF IsSpace(Head(s)) THEN <<"us">> \o ReplaceSpace(SkipSpace(Tail(s)))
  ELSE <<Head(s)>> \o ReplaceSpace(Tail(s))

\* path.join(OUT_DIR, `${name}.md`)
OutPath(name) == [dir |-> "docs/workflows", base |-> ReplaceSpace(name), ext |-> ".md"]

\* display-name nodes: absent, a plain string, an object with its text under
\* _, an object without _
DisplayNames ==
  {Undefined, [t |-> "object", hasKey |-> FALSE, s |-> <<>>]}
    \cup {Str(x) : x \in Titles}
    \cup {[t |-> "object", hasKey |-> TRUE, s |-> x] : x \in Titles}

SampleDisplayNames ==
  {Undefined, [t |-> "object", hasKey |-> FALSE, s |-> <<>>], Str(<<>>),
   [t |-> "object", hasKey |-> TRUE, s |-> <<"ch">>]}

\* the object-name / name attribute: missing, empty or a string
FallbackNames == {Undefined, Str(<<>>), Str(<<"ch", "sp", "ch">>)}

\* forms/_.json next to the XML file
Forms ==
  [kind : {"absent", "unreadable", "invalid", "noSchema"}, nProps : {0}]
    \cup [kind : {"schema"}, nProps : 0..MaxProps]

NoForm == [kind |-> "absent", nProps |-> 0]

\* root.attrib, root.input?.param, root.output?.param, root['error-handler']
\* after explicitArray: false: missing, '' for a lone element without
\* attributes and children, an object for a lone element, an array of n
\* elements
ListNodes ==
  {[shape |-> "undefined", n |-> 0], [shape |-> "empty", n |-> 0],
   [shape |-> "object", n |-> 1]}
    \cup {[shape |-> "array", n |-> k] : k \in 2..MaxVars}

NoList == [shape |-> "undefined", n |-> 0]

\* collect = (x) => Array.isArray(x) ? x : x ? [x] : [], as the length of
\* the array it returns
collect(x) ==
  CASE x.shape = "array" -> x.n
    [] x.shape = "object" -> 1
    [] OTHER -> 0

\* a workflow-item as the generator sees it
DocItem(d, n, ty, id, sm) ==
  [dn |-> d, name |-> n, type |-> ty, linkedId |-> id, scriptModule |-> sm]

DocItems ==
  {DocItem(d, n, "task", FALSE, FALSE) :
     d \in SampleDisplayNames, n \in {Undefined, Str(<<"ch">>)}}
    \cup {DocItem(Undefined, Str(<<"ch">>), ty, id, sm) :
            ty \in {"task", "link"}, id \in BOOLEAN, sm \in BOOLEAN}

\* the parsed root of one workflow file and its form; a run is explored with
\* every display-name, every combination of section sizes, every list of
\* items and every form, each against one representative rest
SampleWorkflow ==
  [kind |-> "workflow", dn |-> [t |-> "object", hasKey |-> TRUE, s |-> <<"ch">>],
   objectName |-> Undefined, attrib |-> NoList, inputParam |-> NoList,
   outputParam |-> NoList, errorHandler |-> NoList, items |-> <<>>,
   form |-> NoForm]

Workflows ==
  {[SampleWorkflow EXCEPT !.dn = d, !.objectName = o] :
     d \in DisplayNames, o \in FallbackNames}
    \cup {[SampleWorkflow EXCEPT !.attrib = a, !.inputParam = i,
                                 !.outputParam = o, !.errorHandler = h] :
            a \in ListNodes, i \in ListNodes, o \in ListNodes, h \in ListNodes}
    \cup {[SampleWorkflow EXCEPT !.items = its] :
            its \in SeqsUpTo(DocItems, MaxItems)}
    \cup {[SampleWorkflow EXCEPT !.form = f, !.attrib = a] :
            f \in Forms, a \in {NoList, [shape |-> "object", n |-> 1]}}

\* the first file of a run is explored with every workflow of Workflows,
\* a later file with every form and a few display-names
LaterWorkflows ==
  {[SampleWorkflow EXCEPT !.form = f, !.attrib = a] :
     f \in Forms, a \in {NoList, [shape |-> "object", n |-> 1]}}
    \cup {[SampleWorkflow EXCEPT !.dn = d] : d \in SampleDisplayNames}

WorkflowsFor(f) == IF f = 1 THEN Workflows ELSE LaterWorkflows

IsLinkedWorkflow(el) == el.type = "link" /\ el.linkedId
HasScriptModule(el) == el.scriptModule

\* lines 39-47
linkedWorkflows(items) == SelectSeq(items, IsLinkedWorkflow)
linkedModules(items) == SelectSeq(items, HasScriptModule)

FormPropsInit_carried(previous) == previous

\* let formProps = [] at the start of every turn of the loop
FormPropsInit(previous) == <<>>

\* the try block: formProps is assigned only when the file was read, parsed
\* and mapped; the rows of file f are <<f, 1>>, <<f, 2>>, ...
ReadForm(init, form, f) ==
  CASE form.kind = "schema" -> [k \in 1..form.nProps |-> <<f, k>>]
    [] form.kind = "noSchema" -> <<>>
    [] OTHER -> init

ShowSection_moreThanOne(length) == length > 1

\* if (arr.length)
ShowSection(length) == length > 0

Section(title, length) == IF ShowSection(length) THEN <<title>> ELSE <<>>

\* the body of Error Handlers / Linked Workflows
ListBody(length) ==
  IF ShowSection(length) THEN [k \in 1..length |-> "line"] ELSE <<"placeholder">>

\* lines 76-167
Markdown(root, props) ==
  [kind |-> "doc",
   title |-> Render(wfName(root)),
   sections |->
     <<"Workflow Details">>
       \o Section("Workflow Variables", collect(root.attrib))
       \o Section("Workflow Inputs", collect(root.inputParam))
       \o Section("Workflow Outputs", collect(root.outputParam))
       \o Section("Workflow Form", Len(props))
       \o <<"Workflow Elements", "Error Handlers", "Linked Workflows">>
       \o Section("Linked Actions (script modules)", Len(linkedModules(root.items))),
   formRows |-> props,
   elements |-> [k \in 1..Len(root.items) |-> Render(elName(root.items[k]))],
   errorHandlers |-> ListBody(collect(root.errorHandler)),
   linked |-> ListBody(Len(linkedWorkflows(root.items))),
   out |-> OutPath(Render(wfName(root)))]

InitDocs ==
  /\ IdleValidator
  /\ IdleCI
  /\ IdleLint
  /\ IdleRollback
  /\ dpc = "files"
  /\ nDocFiles \in 0..MaxFiles
  /\ docFileIdx = 0
  /\ wf = NoWorkflow
  /\ formProps = <<>>
  /\ doc = NoDoc
  /\ earlierRows = {}

\* loadXml rejects, or the file holds no root element
DocsLoadThrows ==
  /\ UNCHANGED exceptDocs
  /\ dpc = "files"
  /\ docFileIdx < nDocFiles
  /\ dpc' = "crashed"
  /\ UNCHANGED <<nDocFiles, docFileIdx, wf, formProps, doc, earlierRows>>

\* one turn of the loop: read the XML file and the form, build the Markdown,
\* write the file
GenerateDoc ==
  /\ UNCHANGED exceptDocs
  /\ dpc = "files"
  /\ docFileIdx < nDocFiles
  /\ \E root \in WorkflowsFor(docFileIdx + 1) :
       LET props == ReadForm(FormPropsInit(formProps), root.form, docFileIdx + 1) IN
       /\ wf' = root
       /\ formProps' = props
       /\ doc' = Markdown(root, props)
  /\ earlierRows' = earlierRows \cup {formProps[k] : k \in 1..Len(formProps)}
  /\ docFileIdx' = docFileIdx + 1
  /\ UNCHANGED <<dpc, nDocFiles>>

\* fs.writeFile rejects (the directory of the path does not exist or cannot
\* be written): the turn ends the process without a document
DocsWriteThrows ==
  /\ UNCHANGED exceptDocs
  /\ dpc = "files"
  /\ docFileIdx < nDocFiles
  /\ \E root \in WorkflowsFor(docFileIdx + 1) :
       /\ wf' = root
       /\ formProps' = ReadForm(FormPropsInit(formProps), root.form, docFileIdx + 1)
  /\ dpc' = "crashed"
  /\ UNCHANGED <<nDocFiles, docFileIdx, doc, earlierRows>>

DocsFinish ==
  /\ UNCHANGED exceptDocs
  /\ dpc = "files"
  /\ docFileIdx = nDocFiles
  /\ dpc' = "done"
  /\ UNCHANGED <<nDocFiles, docFileIdx, wf, formProps, doc, earlierRows>>

NextDocs ==
  \/ DocsLoadThrows
  \/ GenerateDoc
  \/ DocsWriteThrows
  \/ DocsFinish

SpecDocs == InitDocs /\ [][NextDocs]_vars

\* a document of the workflow in wf has been written
Documented == dpc \in {"files", "done"} /\ doc # NoDoc

\* positions of s that survive the replacement: the characters that are not
\* whitespace and the first character of every run of whitespace
Kept(s) ==
  {k \in 1..Len(s) : ~IsSpace(s[k]) \/ k = 1 \/ ~IsSpace(s[k - 1])}

\* r is s with every run of whitespace replaced by a single underscore
RunsReplaced(s, r) ==
  /\ Len(r) = Cardinality(Kept(s))
  /\ \A k \in Kept(s) :
       r[Cardinality({m \in Kept(s) : m <= k})] =
         (IF IsSpace(s[k]) THEN "us" ELSE s[k])

\* C12: every turn of the loop that completes writes one file
\* docs/workflows/<Workflow_Name>.md, where <Workflow_Name> is the workflow's
\* name with every run of whitespace replaced by a single underscore.
C12_OneFilePerWorkflow ==
  /\ (doc # NoDoc) <=> (docFileIdx > 0)
  /\ Documented =>
       /\ doc.out.dir = "docs/workflows"
       /\ doc.out.ext = ".md"
       /\ doc.title = Render(wfName(wf))
       /\ RunsReplaced(doc.title, doc.out.base)

\* a document whose workflow name holds a run of two different whitespace
\* characters next to another character
C12_Witness ==
  /\ Documented
  /\ \E k \in 1..(Len(doc.title) - 1) :
       /\ IsSpace(doc.title[k]) /\ IsSpace(doc.title[k + 1])
       /\ doc.title[k] # doc.title[k + 1]
  /\ \E k \in 1..Len(doc.title) : doc.title[k] = "ch"
  /\ Len(doc.out.base) = 2

\* the name a display-name node and a fallback name call for
NameFrom(dn, fallback, default) ==
  IF dn.t = "string" /\ dn.s # <<>> THEN dn.s
  ELSE IF dn.t = "object" /\ dn.hasKey /\ dn.s # <<>> THEN dn.s
  ELSE IF fallback.t = "string" /\ fallback.s # <<>> THEN fallback.s
  ELSE default

\* C13: the workflow name and the element names of a document are never
\* [object Object]: for a display-name that is a string, an object with _, an
\* object without _ or absent, the name is the text, else the fallback
\* name, else the file name (workflow) or 'unknown' (element).
C13_NeverObjectObject ==
  Documented =>
    /\ doc.title # ObjectObject
    /\ doc.title = NameFrom(wf.dn, wf.objectName, Basename.s)
    /\ \A k \in 1..Len(doc.elements) :
         /\ doc.elements[k] # ObjectObject
         /\ doc.elements[k] = NameFrom(wf.items[k].dn, wf.items[k].name, Unknown.s)

\* a document of a workflow whose display-name is an object without _
C13_Witness ==
  /\ Documented
  /\ wf.dn.t = "object" /\ ~wf.dn.hasKey
  /\ wf.objectName.t = "string" /\ wf.objectName.s # <<>>
  /\ doc.title = wf.objectName.s

\* an element whose display-name is an object without _ and that has no name
C13_WitnessElement ==
  /\ Documented
  /\ \E k \in 1..Len(wf.items) :
       /\ wf.items[k].dn.t = "object" /\ ~wf.items[k].dn.hasKey
       /\ wf.items[k].name = Undefined
       /\ doc.elements[k] = Unknown.s

\* C14: when forms/_.json is absent, unreadable or not valid JSON the
\* document is written without a Workflow Form section, and the form rows of
\* a document are the rows read for its own workflow, never those of a
\* workflow processed earlier.
C14_FormOptional ==
  Documented =>
    /\ wf.form.kind \in {"absent", "unreadable", "invalid"} =>
         /\ doc.formRows = <<>>
         /\ \A k \in 1..Len(doc.sections) : doc.sections[k] # "Workflow Form"
    /\ \A k \in 1..Len(doc.formRows) :
         /\ doc.formRows[k][1] = docFileIdx
         /\ doc.formRows[k] \notin earlierRows

\* a workflow without a readable form is documented after a workflow whose
\* form had rows
C14_Witness ==
  /\ Documented
  /\ docFileIdx > 1
  /\ earlierRows # {}
  /\ wf.form.kind \in {"absent", "unreadable", "invalid"}
  /\ doc.formRows = <<>>

Present(title) == \E k \in 1..Len(doc.sections) : doc.sections[k] = title

Occurrences(title) ==
  Cardinality({k \in 1..Len(doc.sections) : doc.sections[k] = title})

Lines(body) == Cardinality({k \in 1..Len(body) : body[k] = "line"})
Placeholders(body) == Cardinality({k \in 1..Len(body) : body[k] = "placeholder"})

\* entries entries call for one line each, or for the placeholder alone
OneLinePerEntry(body, entries) ==
  IF entries > 0
  THEN Lines(body) = entries /\ Placeholders(body) = 0
  ELSE Lines(body) = 0 /\ Placeholders(body) = 1

\* (an element without attributes and children, which the parser turns into
\* '', is no entry: n counts the elements that carry something)
\* C18: Workflow Details, Workflow Elements, Error Handlers and Linked
\* Workflows are in every document; Workflow Variables, Inputs, Outputs, Form
\* and Linked Actions are there exactly when the workflow has an attribute,
\* input, output, form property or script-module; Error Handlers and Linked
\* Workflows hold one line per entry or their placeholder, never both and
\* never neither.
C18_Sections ==
  Documented =>
    /\ \A t \in {"Workflow Details", "Workflow Elements", "Error Handlers",
                 "Linked Workflows"} : Occurrences(t) = 1
    /\ Present("Workflow Variables") <=> wf.attrib.n >= 1
    /\ Present("Workflow Inputs") <=> wf.inputParam.n >= 1
    /\ Present("Workflow Outputs") <=> wf.outputParam.n >= 1
    /\ Present("Workflow Form") <=> (wf.form.kind = "schema" /\ wf.form.nProps >= 1)
    /\ Present("Linked Actions (script modules)") <=>
         (\E k \in 1..Len(wf.items) : wf.items[k].scriptModule)
    /\ OneLinePerEntry(doc.errorHandlers, wf.errorHandler.n)
    /\ OneLinePerEntry(doc.linked,
         Cardinality({k \in 1..Len(wf.items) :
                        wf.items[k].type = "link" /\ wf.items[k].linkedId}))

\* a document with one input, no attribute, two error handlers and the
\* placeholder for linked workflows
C18_Witness ==
  /\ Documented
  /\ wf.inputParam.n = 1 /\ wf.attrib.n = 0 /\ wf.errorHandler.n = 2
  /\ Present("Workflow Inputs") /\ ~Present("Workflow Variables")
  /\ Lines(doc.errorHandlers) = 2
  /\ Placeholders(doc.linked) = 1

\* a document with a linked workflow and a script module
C18_WitnessLinked ==
  /\ Documented
  /\ Lines(doc.linked) = 1
  /\ Present("Linked Actions (script modules)")

(* ------------- Create AVI Load Balancer: rollback decisions ------------ *)
\* a boolean input of the workflow: true, false, or not set
BooleanInputs == {"true", "false", "null"}

\* the value a string variable holds when it was never set
NullString == "<null>"

\* identifiers the user can hand in as existing resources
ExistingIds(kind) == {"", NullString, kind \o "-existing"}

\* uuid + "#" + name of the resource the run created
CreatedId(kind) == kind \o "-created"

\* if (useExisting...) : JavaScript truthiness of a boolean input
IsSet(flag) == flag = "true"

CheckHealthMonitor(hm, useExisting) ==
  IF hm = "" \/ useExisting = "true" THEN "false" ELSE "true"

CheckPool_identifierOnly(p, useExisting) ==
  IF p = "" THEN "false" ELSE "true"

\* if (pool === "" || useExistingPool === true) return false; else true
CheckPool(p, useExisting) ==
  IF p = "" \/ useExisting = "true" THEN "false" ELSE "true"

InitRollback ==
  /\ IdleValidator
  /\ IdleCI
  /\ IdleLint
  /\ IdleDocs
  /\ rpc = "determineHealthMonitor"
  /\ useExistingHealthMonitor \in BooleanInputs
  /\ existingHealthMonitor \in ExistingIds("healthmonitor")
  /\ useExistingPool \in BooleanInputs
  /\ existingPool \in ExistingIds("pool")
  /\ healthMonitor \in {"", NullString}
  /\ pool \in {"", NullString}
  /\ approved = NoDecision
  /\ deleted = {}

\* an element before the rollback throws: the error handler starts at Check
\* Pool
ElementThrows ==
  /\ UNCHANGED exceptRollback
  /\ rpc \in {"determineHealthMonitor", "createHealthMonitor", "determinePool",
              "createPool", "virtualService"}
  /\ rpc' = "Check Pool"
  /\ UNCHANGED <<useExistingHealthMonitor, existingHealthMonitor,
                 useExistingPool, existingPool, healthMonitor, pool, approved,
                 deleted>>

\* determineHealthMonitor, then the decision useExistingHealthMonitor?
DetermineHealthMonitor ==
  /\ UNCHANGED exceptRollback
  /\ rpc = "determineHealthMonitor"
  /\ IF IsSet(useExistingHealthMonitor)
     THEN /\ healthMonitor' = existingHealthMonitor
          /\ rpc' = "determinePool"
     ELSE /\ healthMonitor' \in {healthMonitor, NullString}
          /\ rpc' = "createHealthMonitor"
  /\ UNCHANGED <<useExistingHealthMonitor, existingHealthMonitor,
                 useExistingPool, existingPool, pool, approved, deleted>>

\* createHealthMonitor: healthMonitor = uuid + "#" + monitorName
CreateHealthMonitor ==
  /\ UNCHANGED exceptRollback
  /\ rpc = "createHealthMonitor"
  /\ healthMonitor' = CreatedId("healthmonitor")
  /\ rpc' = "determinePool"
  /\ UNCHANGED <<useExistingHealthMonitor, existingHealthMonitor,
                 useExistingPool, existingPool, pool, approved, deleted>>

\* determinePool, then the decision useExistingPool
DeterminePool ==
  /\ UNCHANGED exceptRollback
  /\ rpc = "determinePool"
  /\ IF IsSet(useExistingPool)
     THEN /\ pool' = existingPool
          /\ rpc' = "virtualService"
     ELSE /\ pool' \in {pool, NullString}
          /\ rpc' = "createPool"
  /\ UNCHANGED <<useExistingHealthMonitor, existingHealthMonitor,
                 useExistingPool, existingPool, healthMonitor, approved,
                 deleted>>

\* createPool: pool = uuid + "#" + poolName
CreatePool ==
  /\ UNCHANGED exceptRollback
  /\ rpc = "createPool"
  /\ pool' = CreatedId("pool")
  /\ rpc' = "virtualService"
  /\ UNCHANGED <<useExistingHealthMonitor, existingHealthMonitor,
                 useExistingPool, existingPool, healthMonitor, approved,
                 deleted>>

\* determineVIP ... createVS succeed: End workflow
EndWorkflow ==
  /\ UNCHANGED exceptRollback
  /\ rpc = "virtualService"
  /\ rpc' = "End workflow"
  /\ UNCHANGED <<useExistingHealthMonitor, existingHealthMonitor,
                 useExistingPool, existingPool, healthMonitor, pool, approved,
                 deleted>>

\* the decision Check Pool
CheckPoolStep ==
  /\ UNCHANGED exceptRollback
  /\ rpc = "Check Pool"
  /\ approved' = [approved EXCEPT !.pool = CheckPool(pool, useExistingPool)]
  /\ rpc' = IF CheckPool(pool, useExistingPool) = "true"
            THEN "Clear Pool" ELSE "Check Health Monitor"
  /\ UNCHANGED <<useExistingHealthMonitor, existingHealthMonitor,
                 useExistingPool, existingPool, healthMonitor, pool, deleted>>

\* Clear Pool: DELETE /api/pool/<pool>; a status outside 200-299 throws
ClearPool ==
  /\ UNCHANGED exceptRollback
  /\ rpc = "Clear Pool"
  /\ deleted' = deleted \cup {[kind |-> "pool", id |-> pool]}
  /\ rpc' \in {"Check Health Monitor", "failed"}
  /\ UNCHANGED <<useExistingHealthMonitor, existingHealthMonitor,
                 useExistingPool, existingPool, healthMonitor, pool, approved>>

\* the decision Check Health Monitor
CheckHealthMonitorStep ==
  /\ UNCHANGED exceptRollback
  /\ rpc = "Check Health Monitor"
  /\ approved' = [approved EXCEPT
       !.healthMonitor = CheckHealthMonitor(healthMonitor, useExistingHealthMonitor)]
  /\ rpc' = IF CheckHealthMonitor(healthMonitor, useExistingHealthMonitor) = "true"
            THEN "clear Health Monitor" ELSE "item18"
  /\ UNCHANGED <<useExistingHealthMonitor, existingHealthMonitor,
                 useExistingPool, existingPool, healthMonitor, pool, deleted>>

\* clear Health Monitor: DELETE /api/healthmonitor/<healthMonitor>
ClearHealthMonitor ==
  /\ UNCHANGED exceptRollback
  /\ rpc = "clear Health Monitor"
  /\ deleted' = deleted \cup {[kind |-> "healthMonitor", id |-> healthMonitor]}
  /\ rpc' \in {"item18", "failed"}
  /\ UNCHANGED <<useExistingHealthMonitor, existingHealthMonitor,
                 useExistingPool, existingPool, healthMonitor, pool, approved>>

NextRollback ==
  \/ ElementThrows
  \/ DetermineHealthMonitor
  \/ CreateHealthMonitor
  \/ DeterminePool
  \/ CreatePool
  \/ EndWorkflow
  \/ CheckPoolStep
  \/ ClearPool
  \/ CheckHealthMonitorStep
  \/ ClearHealthMonitor

SpecRollback == InitRollback /\ [][NextRollback]_vars

\* C19: Check Health Monitor and Check Pool return true only when the
\* identifier is not the empty string and the useExisting flag is not true;
\* no DELETE is sent for a health monitor or pool the user selected as
\* existing.
C19_ExistingNeverDeleted ==
  /\ approved.healthMonitor = "true" =>
       (healthMonitor # "" /\ useExistingHealthMonitor # "true")
  /\ approved.pool = "true" => (pool # "" /\ useExistingPool # "true")
  /\ useExistingHealthMonitor = "true" =>
       /\ approved.healthMonitor # "true"
       /\ \A d \in deleted : d.kind # "healthMonitor"
  /\ useExistingPool = "true" =>
       /\ approved.pool # "true"
       /\ \A d \in deleted : d.kind # "pool"

\* the run used an existing pool and created a health monitor, failed later,
\* kept the pool and deleted the health monitor
C19_Witness ==
  /\ rpc = "item18"
  /\ useExistingPool = "true" /\ pool = "pool-existing"
  /\ approved.pool = "false"
  /\ approved.healthMonitor = "true"
  /\ deleted = {[kind |-> "healthMonitor", id |-> "healthmonitor-created"]}

\* C11: the pipeline runs for a pull request merged into develop.
C11_RunsForDevelop ==
  (event.action = "closed" /\ event.merged /\ event.base = "develop" /\ run # "none")
    => run = "created"

\* C16: an attempt numbered 1 or 2 without a 2xx code (000 included) is
\* followed by the 5-second wait and then the next attempt; there is no wait
\* after the third attempt or after a 2xx code.
C16_FailedAttemptWaitsAndRetries ==
  \A w \in WorkflowIds :
    LET n == Len(Execs(w)) IN
    /\ \A k \in 1..n :
         (k < MaxAttempts /\ ~Is2xx(Execs(w)[k])) =>
           (n > k \/ job[w].pc \in {"sleep", "trigger"})
    /\ job[w].pc = "sleep" => (n \in 1..(MaxAttempts - 1) /\ ~Is2xx(Execs(w)[n]))

\* C17: every matrix job attempts the execution request until the first 2xx
\* code or three attempts, whatever happens to the other matrix jobs; a job
\* is never stopped because another job failed.
C17_JobsIndependent ==
  \A w \in WorkflowIds :
    (job[w].pc = "end" /\ job[w].status \in {"success", "cancelled"}) =>
      /\ Len(Execs(w)) > 0
      /\ Is2xx(Execs(w)[Len(Execs(w))])

====
